---- MODULE Spec2Model ----
(***************************************************************************)
(* Model of MenuRecommender (src/models/recommender.py): the association   *)
(* index built by train() and the queries answered from it.                *)
(*                                                                         *)
(* A Python dict is modelled as the sequence of its <<key, value>> pairs   *)
(* in insertion order (dicts keep insertion order and sorted() is stable,  *)
(* so the order decides ties).  A float that is a quotient of two counts   *)
(* is modelled as the fraction in lowest terms, a record [num, den]; a     *)
(* value passed through round(x, 3) is modelled as the integer number of   *)
(* thousandths.                                                            *)
(***************************************************************************)
EXTENDS Integers, Sequences, FiniteSets, TLC

\* ---- bounds of the model -------------------------------------------------
NumItems == 3
MaxTx == 2
MaxPositions == 4
MaxTopK == 2
MaxSupport == 2
MaxOrderLen == 2
SupportSteps == 3
MaxBundleSize == 3
MaxLifeTx == 1
MaxLifePositions == 3
NumWideItems == 7
MaxWideTx == 2
MaxCrossPositions == 5
MaxCrossTopK == 3

Items == 1..NumItems

\* All sequences over S of length 0..n.
SeqsUpTo(S, n) == UNION {[1..k -> S] : k \in 0..n}

\* The transaction lists of at most n transactions that hold at most
\* positions item positions in all; a transaction may be empty or repeat an
\* item.
RECURSIVE FeedsWithin(_, _)
FeedsWithin(n, positions) ==
    IF n = 0 THEN {<< >>}
    ELSE {<< >>} \cup
         UNION {{<<t>> \o f : f \in FeedsWithin(n - 1, positions - Len(t))} :
                   t \in SeqsUpTo(Items, positions)}

TxLists == FeedsWithin(MaxTx, MaxPositions)
\* The shorter feeds of the specifications that run every operation.
LifeFeeds == FeedsWithin(MaxLifeTx, MaxLifePositions)
Orders == SeqsUpTo(Items, MaxOrderLen)

\* A wider menu, for the feeds that fill more than MaxBundles pairs: each
\* transaction is a run of consecutive items, ascending or descending.
WideItems == 1..NumWideItems
RunUp(a, b) == [k \in 1..(b - a + 1) |-> a + k - 1]
RunDown(a, b) == [k \in 1..(b - a + 1) |-> b - k + 1]
WideTransactions ==
    {<< >>} \cup {RunUp(ab[1], ab[2]) : ab \in {x \in WideItems \X WideItems : x[1] <= x[2]}}
            \cup {RunDown(ab[1], ab[2]) : ab \in {x \in WideItems \X WideItems : x[1] < x[2]}}
WideFeeds == SeqsUpTo(WideTransactions, MaxWideTx)
\* The feed of four transactions over three items, each pair of items bought
\* together twice and each item three times.
ScenarioFeed == << <<1, 2, 3>>, <<1, 2>>, <<2, 3>>, <<1, 3>> >>
\* Longer transactions, for the feeds that give one item three partners of
\* count 3.
CrossFeeds == FeedsWithin(MaxLifeTx, MaxCrossPositions)

\* ---- Python values ---------------------------------------------------------
None == "None"
\* An attribute that is None or holds a value: << >> or <<value>>.
Unset == << >>
Some(v) == <<v>>
Val(a) == a[1]

\* dict: sequence of <<key, value>> pairs with distinct keys, insertion order.
EmptyDict == << >>
Keys(d) == {d[i][1] : i \in DOMAIN d}
Has(d, k) == k \in Keys(d)
IndexOf(d, k) == CHOOSE i \in DOMAIN d : d[i][1] = k
Get(d, k) == d[IndexOf(d, k)][2]
\* d.get(k, default)
GetOr(d, k, default) == IF Has(d, k) THEN Get(d, k) ELSE default
\* d[k] = v
Put(d, k, v) ==
    IF Has(d, k) THEN [d EXCEPT ![IndexOf(d, k)] = <<k, v>>]
    ELSE Append(d, <<k, v>>)

\* float division of two counts, d > 0: the fraction in lowest terms.
RECURSIVE GCD(_, _)
GCD(a, b) == IF b = 0 THEN a ELSE GCD(b, a % b)
Frac(n, d) == [num |-> n \div GCD(n, d), den |-> d \div GCD(n, d)]
FracLess(p, q) == p.num * q.den < q.num * p.den
FracLeq(p, q) == p.num * q.den <= q.num * p.den
Zero == [num |-> 0, den |-> 1]
One == [num |-> 1, den |-> 1]
FracAdd(p, q) == Frac(p.num * q.den + q.num * p.den, p.den * q.den)

\* sorted(s, key=..., reverse=True): stable, so equal keys keep their order.
\* Greater(x, y) is "key(x) > key(y)".
SortedDesc(s, Greater(_, _)) ==
    LET n == Len(s)
        same(i, j) == ~Greater(s[i], s[j]) /\ ~Greater(s[j], s[i])
        pos(i) == Cardinality({j \in 1..n : Greater(s[j], s[i])})
                  + Cardinality({j \in 1..(i - 1) : same(i, j)}) + 1
    IN  [p \in 1..n |-> s[CHOOSE i \in 1..n : pos(i) = p]]

\* The last k elements instead of the first.
TakeLast(s, k) == SubSeq(s, (IF k < Len(s) THEN Len(s) - k ELSE 0) + 1, Len(s))

\* s[:k]
Take(s, k) == SubSeq(s, 1, IF k < Len(s) THEN k ELSE Len(s))

\* itertools.combinations(t, 2): the pairs <<t[i], t[j]>>, i < j, in
\* lexicographic order of <<i, j>>.
RECURSIVE CombFrom(_, _, _)
CombFrom(t, i, j) ==
    IF i >= Len(t) THEN << >>
    ELSE IF j > Len(t) THEN CombFrom(t, i + 1, i + 2)
    ELSE << <<t[i], t[j]>> >> \o CombFrom(t, i, j + 1)
\* Only the pairs of neighbouring positions.
combinationsAdjacent(t) ==
    IF Len(t) < 2 THEN << >> ELSE [i \in 1..(Len(t) - 1) |-> <<t[i], t[i + 1]>>]

combinations(t) == CombFrom(t, 1, 2)

\* ---- train ---------------------------------------------------------------
\* A counter that records presence instead of counting.
IncrCountOnce(counts, item) == Put(counts, item, 1)

\* item_counts[item] += 1 on a defaultdict(int)
IncrCount(counts, item) == Put(counts, item, GetOr(counts, item, 0) + 1)

\* cooc[a][b] += 1 on a defaultdict of defaultdict(int): reading cooc[a]
\* inserts an empty row for a missing a.
IncrPair(cooc, a, b) ==
    LET row == GetOr(cooc, a, EmptyDict)
    IN  Put(cooc, a, Put(row, b, GetOr(row, b, 0) + 1))

\* Line 48 left out: only the direction (item1, item2) is counted.
CountPairOneWay(cooc, pair) == IncrPair(cooc, pair[1], pair[2])

\* A pair of one item with itself is counted once.
CountPairSelfOnce(cooc, pair) ==
    IF pair[1] = pair[2] THEN IncrPair(cooc, pair[1], pair[2])
    ELSE IncrPair(IncrPair(cooc, pair[1], pair[2]), pair[2], pair[1])

\* Lines 47-48: both directions of one combination.
CountPair(cooc, pair) == IncrPair(IncrPair(cooc, pair[1], pair[2]), pair[2], pair[1])

\* In the three loops below the disjunct Len(...) < 0 never holds: it has the
\* accumulated table evaluated at each iteration, so that the updates do not
\* nest as deep as the loop is long.
RECURSIVE CountItems(_, _, _)
CountItems(counts, t, i) ==
    IF i > Len(t) \/ Len(counts) < 0 THEN counts
    ELSE CountItems(IncrCount(counts, t[i]), t, i + 1)

RECURSIVE CountPairs(_, _, _)
CountPairs(cooc, pairs, i) ==
    IF i > Len(pairs) \/ Len(cooc) < 0 THEN cooc
    ELSE CountPairs(CountPair(cooc, pairs[i]), pairs, i + 1)

\* One iteration of the loop of line 40 on the locals (cooc, item_counts).
TrainTransactionPairsOnly(loc, t) ==
    [cooc |-> CountPairs(loc.cooc, combinations(t), 1),
     counts |-> IF Len(t) >= 2 THEN CountItems(loc.counts, t, 1) ELSE loc.counts]

TrainTransaction(loc, t) ==
    [cooc |-> CountPairs(loc.cooc, combinations(t), 1),
     counts |-> CountItems(loc.counts, t, 1)]

RECURSIVE TrainLoop(_, _, _)
TrainLoop(loc, T, i) ==
    IF i > Len(T) \/ Len(loc.cooc) < 0 THEN loc
    ELSE TrainLoop(TrainTransaction(loc, T[i]), T, i + 1)

\* Lines 51-55: {item: count / total_transactions for item, count in item_counts}
Popularity(counts, total) ==
    [i \in DOMAIN counts |-> <<counts[i][1], Frac(counts[i][2], total)>>]

\* Lines 61-65: the returned summary; the mean divides by total_transactions.
RECURSIVE SumLen(_, _)
SumLen(T, i) == IF i > Len(T) THEN 0 ELSE Len(T[i]) + SumLen(T, i + 1)

Raise(e) == [status |-> "raise", error |-> e, value |-> None]
Return(v) == [status |-> "ok", error |-> "", value |-> v]

TrainReturn(T, pop) ==
    IF Len(T) = 0 THEN Raise("ZeroDivisionError")
    ELSE Return([num_transactions |-> Len(T),
                 num_items |-> Len(pop),
                 avg_items_per_transaction |-> Frac(SumLen(T, 1), Len(T))])

\* ---- recommend_related_items ---------------------------------------------
\* round(n / d, digits) as the integer number of 1/scale units, scale =
\* 10^digits (round half to even).
Rounded(n, d, scale) ==
    LET a == scale * n
        q == a \div d
        r == a % d
    IN  IF 2 * r < d THEN q
        ELSE IF 2 * r > d THEN q + 1
        ELSE IF q % 2 = 0 THEN q ELSE q + 1
Round3(n, d) == Rounded(n, d, 1000)
Round4(n, d) == Rounded(n, d, 10000)

\* The filter with its comparison turned around.
FilterSupportBelow(row, min_support) == SelectSeq(row, LAMBDA kv : kv[2] <= min_support)

\* Line 87: {k: v for k, v in related_items.items() if v >= min_support}
FilterSupport(row, min_support) == SelectSeq(row, LAMBDA kv : kv[2] >= min_support)

\* The same sort without reverse=True.
SortByCountAscending(items) == SortedDesc(items, LAMBDA x, y : x[2] < y[2])

\* Line 90: sorted(related_items.items(), key=lambda x: x[1], reverse=True)
SortByCount(items) == SortedDesc(items, LAMBDA x, y : x[2] > y[2])

\* Lines 95-101: one recommendation; score = count + popularity * 100.
Recommendation(kv, pop) ==
    LET p == GetOr(pop, kv[1], Zero)
    IN  [menu_item_id |-> kv[1],
         cooccurrence_count |-> kv[2],
         popularity_score |-> p,
         recommendation_score |-> Round3(kv[2] * p.den + 100 * p.num, p.den)]

NotFitted == Raise("ValueError")

\* The same query without the guard of lines 80-81: a missing item is an error.
related_items_unguarded(cooc, pop, fitted, menu_item_id, top_k, min_support) ==
    IF ~fitted THEN NotFitted
    ELSE IF ~Has(Val(cooc), menu_item_id) THEN Raise("KeyError")
    ELSE LET related_items == FilterSupport(Get(Val(cooc), menu_item_id), min_support)
             top == Take(SortByCount(related_items), top_k)
         IN  Return([i \in DOMAIN top |-> Recommendation(top[i], Val(pop))])

recommend_related_items(cooc, pop, fitted, menu_item_id, top_k, min_support) ==
    IF ~fitted THEN NotFitted
    ELSE IF ~Has(Val(cooc), menu_item_id) THEN Return(<< >>)
    ELSE LET related_items == FilterSupport(Get(Val(cooc), menu_item_id), min_support)
             top == Take(SortByCount(related_items), top_k)
         IN  Return([i \in DOMAIN top |-> Recommendation(top[i], Val(pop))])

\* self.item_cooccurrence[k] (line 84) on the defaultdict of lines 37 and
\* 272: the table the read leaves, a missing key being inserted with an
\* empty row.
GetItemTable(cooc, k) == IF Has(cooc, k) THEN cooc ELSE Append(cooc, <<k, EmptyDict>>)

\* A read of the row that the check of lines 80-81 does not protect.
related_items_table_unguarded(cooc, fitted, menu_item_id) ==
    IF ~fitted THEN cooc ELSE Some(GetItemTable(Val(cooc), menu_item_id))

\* self.item_cooccurrence after recommend_related_items: line 84 is reached
\* only past the checks of lines 77-81.
related_items_table(cooc, fitted, menu_item_id) ==
    IF ~fitted THEN cooc
    ELSE IF ~Has(Val(cooc), menu_item_id) THEN cooc
    ELSE Some(GetItemTable(Val(cooc), menu_item_id))

\* ---- get_frequent_bundles ------------------------------------------------
MaxBundles == 20

\* Both orders of every pair of distinct items.
RowPairsBothWays(i1, row) ==
    LET kept == SelectSeq(row, LAMBDA kv : i1 # kv[1])
    IN  [j \in DOMAIN kept |-> << <<i1, kept[j][1]>>, kept[j][2] >>]

\* Lines 122-127: the (i1, i2) -> count entries with i1 < i2, rows in order.
RowPairs(i1, row) ==
    LET kept == SelectSeq(row, LAMBDA kv : i1 < kv[1])
    IN  [j \in DOMAIN kept |-> << <<i1, kept[j][1]>>, kept[j][2] >>]

RECURSIVE ItemSupport(_, _)
ItemSupport(cooc, i) ==
    IF i > Len(cooc) THEN << >>
    ELSE RowPairs(cooc[i][1], cooc[i][2]) \o ItemSupport(cooc, i + 1)

RECURSIVE SumValues(_, _)
SumValues(d, i) == IF i > Len(d) THEN 0 ELSE d[i][2] + SumValues(d, i + 1)

FilterMinCountUnscaled(item_support, min_support, total) ==
    SelectSeq(item_support, LAMBDA kv : kv[2] * min_support.den >= min_support.num)

\* Line 133: v >= min_support * total_cooccurrences, min_support a fraction.
FilterMinCount(item_support, min_support, total) ==
    SelectSeq(item_support, LAMBDA kv : kv[2] * min_support.den >= min_support.num * total)

SortBySupportAscending(item_support) == SortedDesc(item_support, LAMBDA x, y : x[2] < y[2])

\* Line 136: sorted(item_support.items(), key=lambda x: x[1], reverse=True)
SortBySupport(item_support) == SortedDesc(item_support, LAMBDA x, y : x[2] > y[2])

\* Lines 138-143: one bundle; support = round(count / total, 4).
Bundle(kv, total) ==
    [items |-> kv[1], support |-> Round4(kv[2], total), count |-> kv[2]]

get_frequent_bundles(cooc, fitted, min_support, max_bundle_size) ==
    IF ~fitted THEN NotFitted
    ELSE LET item_support == ItemSupport(Val(cooc), 1)
             total_cooccurrences == SumValues(item_support, 1)
             kept == FilterMinCount(item_support, min_support, total_cooccurrences)
             sorted_bundles == SortBySupport(kept)
             bundles == [i \in DOMAIN sorted_bundles |->
                            Bundle(sorted_bundles[i], total_cooccurrences)]
         IN  Return(Take(bundles, MaxBundles))

\* ---- get_cross_sell_opportunities ----------------------------------------
\* Lines 160-169: potential = count * 0.6 + popularity * 1000 * 0.4, rounded
\* to 3 places; i is the 0-based rank.
OpportunityOneUpsell(rec, i) ==
    LET p == rec.popularity_score
    IN  [menu_item_id |-> rec.menu_item_id,
         cooccurrence_count |-> rec.cooccurrence_count,
         popularity_score |-> rec.popularity_score,
         recommendation_score |-> rec.recommendation_score,
         cross_sell_potential |->
             Round3(6 * rec.cooccurrence_count * p.den + 4000 * p.num, 10 * p.den),
         recommendation_type |-> IF i < 1 THEN "upsell" ELSE "add-on"]

Opportunity(rec, i) ==
    LET p == rec.popularity_score
    IN  [menu_item_id |-> rec.menu_item_id,
         cooccurrence_count |-> rec.cooccurrence_count,
         popularity_score |-> rec.popularity_score,
         recommendation_score |-> rec.recommendation_score,
         cross_sell_potential |->
             Round3(6 * rec.cooccurrence_count * p.den + 4000 * p.num, 10 * p.den),
         recommendation_type |-> IF i < 2 THEN "upsell" ELSE "add-on"]

\* The candidates are taken with min_support = 2.
cross_sell_support_two(cooc, pop, fitted, menu_item_id, top_k) ==
    IF ~fitted THEN NotFitted
    ELSE LET related == recommend_related_items(cooc, pop, fitted, menu_item_id,
                                                top_k * 2, 2).value
             top == Take(related, top_k)
         IN  Return([i \in DOMAIN top |-> Opportunity(top[i], i - 1)])

get_cross_sell_opportunities(cooc, pop, fitted, menu_item_id, top_k) ==
    IF ~fitted THEN NotFitted
    ELSE LET related == recommend_related_items(cooc, pop, fitted, menu_item_id,
                                                top_k * 2, 3).value
             top == Take(related, top_k)
         IN  Return([i \in DOMAIN top |-> Opportunity(top[i], i - 1)])

\* self.item_cooccurrence after get_cross_sell_opportunities (line 155).
cross_sell_table(cooc, fitted, menu_item_id) ==
    related_items_table(cooc, fitted, menu_item_id)

\* ---- get_item_statistics -------------------------------------------------
\* self.item_cooccurrence after get_item_statistics (line 182).
item_statistics_table(cooc, pop, fitted, menu_item_id) ==
    IF ~fitted THEN cooc
    ELSE IF ~Has(Val(pop), menu_item_id) THEN cooc
    ELSE related_items_table(cooc, fitted, menu_item_id)

get_item_statistics(cooc, pop, fitted, menu_item_id) ==
    IF ~fitted THEN NotFitted
    ELSE IF ~Has(Val(pop), menu_item_id) THEN Return(None)
    ELSE LET related == recommend_related_items(cooc, pop, fitted, menu_item_id,
                                                10, 1).value
             p == Get(Val(pop), menu_item_id)
         IN  Return([menu_item_id |-> menu_item_id,
                     popularity_score |-> p,
                     num_related_items |-> Len(related),
                     top_related_items |-> Take(related, 5),
                     is_popular |-> 10 * p.num > p.den])

\* ---- recommend_items_for_order -------------------------------------------
SortByPopularityAscending(pop) == SortedDesc(pop, LAMBDA x, y : FracLess(x[2], y[2]))

\* Line 205: sorted(self.item_popularity.items(), key=lambda x: x[1], reverse=True)
SortByPopularity(pop) == SortedDesc(pop, LAMBDA x, y : FracLess(y[2], x[2]))

\* Line 223: sorted(recommendation_scores.items(), key=lambda x: x[1], reverse=True)
SortByScore(scores) == SortedDesc(scores, LAMBDA x, y : x[2] > y[2])

InOrderNever(current_order, item) == FALSE

\* Line 219: rec['menu_item_id'] in current_order
InOrder(current_order, item) == \E j \in DOMAIN current_order : current_order[j] = item

\* The score of a candidate is overwritten, not added to.
RECURSIVE AddScoresLast(_, _, _, _)
AddScoresLast(scores, related, current_order, i) ==
    IF i > Len(related) THEN scores
    ELSE LET rec == related[i]
             next == IF InOrder(current_order, rec.menu_item_id) THEN scores
                     ELSE Put(scores, rec.menu_item_id, rec.recommendation_score)
         IN  AddScoresLast(next, related, current_order, i + 1)

\* Lines 217-220: add the scores of the recommendations not already ordered.
RECURSIVE AddScores(_, _, _, _)
AddScores(scores, related, current_order, i) ==
    IF i > Len(related) THEN scores
    ELSE LET rec == related[i]
             next == IF InOrder(current_order, rec.menu_item_id) THEN scores
                     ELSE Put(scores, rec.menu_item_id,
                              GetOr(scores, rec.menu_item_id, 0) + rec.recommendation_score)
         IN  AddScores(next, related, current_order, i + 1)

\* Lines 215-220: the loop over the items of the order.
RECURSIVE OrderScores(_, _, _, _, _, _)
OrderScores(scores, cooc, pop, current_order, top_k, i) ==
    IF i > Len(current_order) THEN scores
    ELSE LET related == recommend_related_items(cooc, pop, TRUE, current_order[i],
                                                top_k * 2, 2).value
         IN  OrderScores(AddScores(scores, related, current_order, 1),
                         cooc, pop, current_order, top_k, i + 1)

recommend_items_for_order(cooc, pop, fitted, current_order, top_k) ==
    IF ~fitted THEN NotFitted
    ELSE IF Len(current_order) = 0
    THEN LET top == Take(SortByPopularity(Val(pop)), top_k)
         IN  Return([i \in DOMAIN top |->
                        [menu_item_id |-> top[i][1], score |-> top[i][2],
                         reason |-> "popular"]])
    ELSE LET scores == OrderScores(EmptyDict, cooc, pop, current_order, top_k, 1)
             top == Take(SortByScore(scores), top_k)
         IN  Return([i \in DOMAIN top |->
                        [menu_item_id |-> top[i][1], score |-> top[i][2],
                         reason |-> "frequently_bought_together"]])

\* self.item_cooccurrence after recommend_items_for_order: the reads of
\* line 216, one per item of the order.
RECURSIVE order_table(_, _, _, _)
order_table(cooc, fitted, current_order, i) ==
    IF ~fitted \/ i > Len(current_order) THEN cooc
    ELSE order_table(related_items_table(cooc, fitted, current_order[i]),
                     fitted, current_order, i + 1)

\* ---- get_menu_insights ---------------------------------------------------
RECURSIVE SumFracs(_, _)
SumFracs(d, i) == IF i > Len(d) THEN Zero ELSE FracAdd(d[i][2], SumFracs(d, i + 1))

\* np.mean and np.median of the popularity values; both are nan on no values.
Mean(pop) ==
    IF Len(pop) = 0 THEN "nan"
    ELSE LET sum == SumFracs(pop, 1) IN Frac(sum.num, sum.den * Len(pop))
Median(pop) ==
    IF Len(pop) = 0 THEN "nan"
    ELSE LET sorted == SortByPopularity(pop)
             n == Len(pop)
             hi == sorted[n - (n \div 2)][2]
             lo == sorted[(n \div 2) + 1][2]
             sum == FracAdd(lo, hi)
         IN  Frac(sum.num, sum.den * 2)

\* Lines 231-252; std_popularity, a square root, is left out of the value.
get_menu_insights(pop, fitted) ==
    IF ~fitted THEN NotFitted
    ELSE LET top == Take(SortByPopularity(Val(pop)), 10)
         IN  Return([total_unique_items |-> Len(Val(pop)),
                     top_popular_items |->
                         [i \in DOMAIN top |->
                             [menu_item_id |-> top[i][1], popularity_score |-> top[i][2]]],
                     avg_popularity |-> Mean(Val(pop)),
                     median_popularity |-> Median(Val(pop))])

\* ---- state ---------------------------------------------------------------
VARIABLES
    feed,               \* the transaction feed the caller trains from
    item_cooccurrence,  \* self.item_cooccurrence
    item_popularity,    \* self.item_popularity
    is_fitted,          \* self.is_fitted
    blob,               \* the file written by save(), Unset when absent
    built,              \* history: some train() has returned normally
    result,             \* the last finished call: name, arguments, outcome
    train_pc,           \* where a train() running beside the queries stands
    train_T,            \* its argument
    train_i,            \* the number of transactions its loop has counted
    item_counts,        \* its local item_counts
    prev                \* history: the attributes when that train() began

engine == <<item_cooccurrence, item_popularity, is_fitted>>
builder == <<train_pc, train_T, train_i, item_counts, prev>>
vars == <<feed, item_cooccurrence, item_popularity, is_fitted, blob, built, result,
          train_pc, train_T, train_i, item_counts, prev>>

Attributes == [item_cooccurrence |-> item_cooccurrence,
               item_popularity |-> item_popularity,
               is_fitted |-> is_fitted]

\* What a call ran beside: no train(), or a train() at some line.
NoBuilder == [pc |-> "idle"]
Beside == IF train_pc = "idle" THEN NoBuilder
          ELSE [pc |-> train_pc, transactions |-> train_T, prev |-> prev]

Call(op, args, out) ==
    [op |-> op, args |-> args, status |-> out.status, error |-> out.error,
     value |-> out.value, beside |-> Beside]

NoArgs == [none |-> TRUE]

\* __init__ (lines 21-25), before any call, for a feed drawn from Feeds.
InitWith(Feeds) ==
    /\ feed \in Feeds
    /\ item_cooccurrence = Unset
    /\ item_popularity = Unset
    /\ is_fitted = FALSE
    /\ blob = Unset
    /\ built = FALSE
    /\ result = [op |-> "init", args |-> NoArgs, status |-> "ok", error |-> "",
                 value |-> None, beside |-> NoBuilder]
    /\ train_pc = "idle"
    /\ train_T = << >>
    /\ train_i = 0
    /\ item_counts = EmptyDict
    /\ prev = [item_cooccurrence |-> Unset, item_popularity |-> Unset,
               is_fitted |-> FALSE]

Init == InitWith(TxLists)

\* The batches a caller can hand to train(): the slices feed[i..j].
Batches == {SubSeq(feed, i, j) : i \in 1..(Len(feed) + 1), j \in 0..Len(feed)}

\* A train() that keeps counting on the table it finds.
TrainedAccumulating(T) ==
    LET found == IF item_cooccurrence = Unset THEN EmptyDict ELSE Val(item_cooccurrence)
        loc == TrainLoop([cooc |-> found, counts |-> EmptyDict], T, 1)
    IN  [item_cooccurrence |-> Some(loc.cooc),
         item_popularity |-> Some(Popularity(loc.counts, Len(T))),
         is_fitted |-> TRUE]

\* The attributes train(T) leaves behind when it runs to line 57.
Trained(T) ==
    LET loc == TrainLoop([cooc |-> EmptyDict, counts |-> EmptyDict], T, 1)
    IN  [item_cooccurrence |-> Some(loc.cooc),
         item_popularity |-> Some(Popularity(loc.counts, Len(T))),
         is_fitted |-> TRUE]

\* train(transactions), lines 27-65, run without interruption.
Train(T) ==
    LET new == Trained(T)
        out == TrainReturn(T, Val(new.item_popularity))
    IN  /\ train_pc = "idle"
        /\ item_cooccurrence' = new.item_cooccurrence
        /\ item_popularity' = new.item_popularity
        /\ is_fitted' = new.is_fitted
        /\ built' = (built \/ out.status = "ok")
        /\ result' = Call("train", [transactions |-> T], out)
        /\ UNCHANGED <<feed, blob, builder>>

\* recommend_related_items(menu_item_id, top_k, min_support), lines 67-103.
Related(item, top_k, min_support) ==
    /\ result' = Call("related",
                      [menu_item_id |-> item, top_k |-> top_k, min_support |-> min_support],
                      recommend_related_items(item_cooccurrence, item_popularity,
                                              is_fitted, item, top_k, min_support))
    /\ item_cooccurrence' = related_items_table(item_cooccurrence, is_fitted, item)
    /\ UNCHANGED <<feed, item_popularity, is_fitted, blob, built, builder>>

\* save(path), lines 254-266.
Save ==
    /\ train_pc = "idle"
    /\ IF ~is_fitted
       THEN /\ result' = Call("save", NoArgs, Raise("ValueError"))
            /\ UNCHANGED blob
       ELSE /\ blob' = Some(Attributes)
            /\ result' = Call("save", NoArgs, Return(None))
    /\ UNCHANGED <<feed, engine, built, builder>>

\* A load() that leaves the engine unfitted.
LoadFittedReset(model_data) == FALSE

\* The value load() assigns to self.is_fitted (line 274).
LoadFitted(model_data) == model_data.is_fitted

\* A load() that restores no co-occurrence rows.
LoadCooccurrenceEmpty(model_data) == Some(EmptyDict)

\* The value load() assigns to self.item_cooccurrence (line 272): a
\* defaultdict holding the saved rows.
LoadCooccurrence(model_data) == model_data.item_cooccurrence

\* load(path), lines 268-276; joblib.load raises when the file is absent.
Load ==
    /\ train_pc = "idle"
    /\ IF blob = Unset
       THEN /\ result' = Call("load", NoArgs, Raise("FileNotFoundError"))
            /\ UNCHANGED engine
       ELSE /\ item_cooccurrence' = LoadCooccurrence(Val(blob))
            /\ item_popularity' = Val(blob).item_popularity
            /\ is_fitted' = LoadFitted(Val(blob))
            /\ result' = Call("load", NoArgs, Return(None))
    /\ UNCHANGED <<feed, blob, built, builder>>

Query(op, args, out) ==
    /\ result' = Call(op, args, out)
    /\ UNCHANGED <<feed, engine, blob, built, builder>>

\* A query that reads rows of the co-occurrence table by key, and the table
\* its reads leave.
QueryRows(op, args, out, table) ==
    /\ result' = Call(op, args, out)
    /\ item_cooccurrence' = table
    /\ UNCHANGED <<feed, item_popularity, is_fitted, blob, built, builder>>

\* get_frequent_bundles(min_support, max_bundle_size), lines 105-145.
Bundles(min_support, max_bundle_size) ==
    Query("frequent_bundles",
          [min_support |-> min_support, max_bundle_size |-> max_bundle_size],
          get_frequent_bundles(item_cooccurrence, is_fitted, min_support, max_bundle_size))

\* get_cross_sell_opportunities(menu_item_id, top_k), lines 147-171.
CrossSell(item, top_k) ==
    QueryRows("cross_sell", [menu_item_id |-> item, top_k |-> top_k],
              get_cross_sell_opportunities(item_cooccurrence, item_popularity, is_fitted,
                                           item, top_k),
              cross_sell_table(item_cooccurrence, is_fitted, item))

\* get_item_statistics(menu_item_id), lines 173-190.
ItemStatistics(item) ==
    QueryRows("item_statistics", [menu_item_id |-> item],
              get_item_statistics(item_cooccurrence, item_popularity, is_fitted, item),
              item_statistics_table(item_cooccurrence, item_popularity, is_fitted, item))

\* recommend_items_for_order(current_order, top_k), lines 192-229.
ForOrder(current_order, top_k) ==
    QueryRows("recommend_for_order", [current_order |-> current_order, top_k |-> top_k],
              recommend_items_for_order(item_cooccurrence, item_popularity, is_fitted,
                                        current_order, top_k),
              order_table(item_cooccurrence, is_fitted, current_order, 1))

\* get_menu_insights(), lines 231-252.
Insights ==
    Query("insights", NoArgs, get_menu_insights(item_popularity, is_fitted))

\* ---- train() step by step, beside the queries ------------------------------
\* A train() that keeps the table it finds.
TrainBeginKeeping(T) ==
    /\ train_pc = "idle"
    /\ train_pc' = "loop"
    /\ train_T' = T
    /\ train_i' = 0
    /\ item_counts' = EmptyDict
    /\ prev' = Attributes
    /\ item_cooccurrence' = IF item_cooccurrence = Unset THEN Some(EmptyDict)
                            ELSE item_cooccurrence
    /\ UNCHANGED <<feed, item_popularity, is_fitted, blob, built, result>>

\* A train() that sets the flag of line 57 at its first line.
TrainBeginFitted(T) ==
    /\ train_pc = "idle"
    /\ train_pc' = "loop"
    /\ train_T' = T
    /\ train_i' = 0
    /\ item_counts' = EmptyDict
    /\ prev' = Attributes
    /\ item_cooccurrence' = Some(EmptyDict)
    /\ is_fitted' = TRUE
    /\ UNCHANGED <<feed, item_popularity, blob, built, result>>

\* Lines 37-38: a new empty table replaces self.item_cooccurrence.
TrainBegin(T) ==
    /\ train_pc = "idle"
    /\ train_pc' = "loop"
    /\ train_T' = T
    /\ train_i' = 0
    /\ item_counts' = EmptyDict
    /\ prev' = Attributes
    /\ item_cooccurrence' = Some(EmptyDict)
    /\ UNCHANGED <<feed, item_popularity, is_fitted, blob, built, result>>

\* Lines 40-48: one transaction is counted into the table in place.
TrainStep ==
    /\ train_pc = "loop"
    /\ train_i < Len(train_T)
    /\ LET loc == TrainTransaction([cooc |-> Val(item_cooccurrence), counts |-> item_counts],
                                   train_T[train_i + 1])
       IN  /\ item_cooccurrence' = Some(loc.cooc)
           /\ item_counts' = loc.counts
    /\ train_i' = train_i + 1
    /\ UNCHANGED <<feed, item_popularity, is_fitted, blob, built, result,
                   train_pc, train_T, prev>>

\* Lines 51-55, after the loop.
TrainPopularity ==
    /\ train_pc = "loop"
    /\ train_i = Len(train_T)
    /\ item_popularity' = Some(Popularity(item_counts, Len(train_T)))
    /\ train_pc' = "fitted"
    /\ UNCHANGED <<feed, item_cooccurrence, is_fitted, blob, built, result,
                   train_T, train_i, item_counts, prev>>

\* Line 57.
TrainSetFitted ==
    /\ train_pc = "fitted"
    /\ is_fitted' = TRUE
    /\ train_pc' = "return"
    /\ UNCHANGED <<feed, item_cooccurrence, item_popularity, blob, built, result,
                   train_T, train_i, item_counts, prev>>

\* Lines 58-65.
TrainEnd ==
    /\ train_pc = "return"
    /\ LET out == TrainReturn(train_T, Val(item_popularity))
       IN  /\ built' = (built \/ out.status = "ok")
           /\ result' = [Call("train", [transactions |-> train_T], out)
                            EXCEPT !.beside = NoBuilder]
    /\ train_pc' = "idle"
    /\ UNCHANGED <<feed, engine, blob, train_T, train_i, item_counts, prev>>

\* ---- specifications ------------------------------------------------------
SupportFractions == {Frac(n, SupportSteps) : n \in 0..SupportSteps}

\* Every operation, one call after the other, on the shorter feeds.
Next ==
    \/ \E T \in Batches : Train(T)
    \/ \E item \in Items, top_k \in 0..MaxTopK, min_support \in 0..MaxSupport :
           Related(item, top_k, min_support)
    \/ \E min_support \in SupportFractions, size \in 2..MaxBundleSize :
           Bundles(min_support, size)
    \/ \E item \in Items, top_k \in 0..MaxTopK : CrossSell(item, top_k)
    \/ \E item \in Items : ItemStatistics(item)
    \/ \E order \in Orders, top_k \in 0..MaxTopK : ForOrder(order, top_k)
    \/ Insights
    \/ Save
    \/ Load

InitLife == InitWith(LifeFeeds)

Spec == InitLife /\ [][Next]_vars

\* A train() that the scheduler interleaves with related-item queries.
NextConc ==
    \/ \E T \in Batches : TrainBegin(T)
    \/ TrainStep
    \/ TrainPopularity
    \/ TrainSetFitted
    \/ TrainEnd
    \/ \E item \in Items, top_k \in 0..MaxTopK, min_support \in 0..MaxSupport :
           Related(item, top_k, min_support)

SpecConc == InitLife /\ [][NextConc]_vars

\* train() alone, on every batch of every feed.
NextBuild == \E T \in Batches : Train(T)

SpecBuild == Init /\ [][NextBuild]_vars

\* train() on the whole feed, then related-item queries.
NextRelated ==
    \/ Train(feed)
    \/ \E item \in Items, top_k \in 0..MaxTopK, min_support \in 0..MaxSupport :
           Related(item, top_k, min_support)

SpecRelated == Init /\ [][NextRelated]_vars

\* train() on the whole feed, then bundle queries; the feeds are the dense
\* ones over the small menu and the wide ones.
NextBundles ==
    \/ Train(feed)
    \/ \E min_support \in SupportFractions, size \in 2..MaxBundleSize :
           Bundles(min_support, size)

InitBundles == InitWith(TxLists \cup WideFeeds)

SpecBundles == InitBundles /\ [][NextBundles]_vars

\* train() on the whole feed, then cross-sell queries, on the feeds of one
\* longer transaction.
NextCrossSell ==
    \/ Train(feed)
    \/ \E item \in Items, top_k \in 0..MaxCrossTopK : CrossSell(item, top_k)

InitCrossSell == InitWith(CrossFeeds)

SpecCrossSell == InitCrossSell /\ [][NextCrossSell]_vars

\* train() on the whole feed, then recommendations for an order.
NextOrder ==
    \/ Train(feed)
    \/ \E order \in Orders, top_k \in 0..MaxTopK : ForOrder(order, top_k)

SpecOrder == Init /\ [][NextOrder]_vars

\* train() alone, on every batch of every feed and of the scenario feed.
InitPairs == InitWith(TxLists \cup {ScenarioFeed})

SpecPairs == InitPairs /\ [][NextBuild]_vars

\* train() step by step, one build after the other, on every batch of every
\* feed.
NextRebuild ==
    \/ \E T \in Batches : TrainBegin(T)
    \/ TrainStep
    \/ TrainPopularity
    \/ TrainSetFitted
    \/ TrainEnd

SpecRebuild == Init /\ [][NextRebuild]_vars

\* train() on the whole feed, then related-item and bundle queries.
NextSelf ==
    \/ Train(feed)
    \/ \E item \in Items, top_k \in 0..MaxTopK, min_support \in 0..MaxSupport :
           Related(item, top_k, min_support)
    \/ \E min_support \in SupportFractions, size \in 2..MaxBundleSize :
           Bundles(min_support, size)

SpecSelf == Init /\ [][NextSelf]_vars

\* ---- the tables, as the claims read them -----------------------------------
Cooc == Val(item_cooccurrence)
Pop == Val(item_popularity)
Present(a, b) == Has(Cooc, a) /\ Has(Get(Cooc, a), b)
Count(a, b) == Get(Get(Cooc, a), b)

\* The last call was train(T) and it returned its summary.
AfterBuild == result.op = "train" /\ result.status = "ok"
LastBatch == result.args.transactions

\* Number of positions of T that hold item.
Occurrences(item, T) ==
    Cardinality({ij \in (DOMAIN T) \X (1..MaxPositions) :
                    ij[2] \in DOMAIN T[ij[1]] /\ T[ij[1]][ij[2]] = item})
\* Number of transactions of T that hold item.
Containing(item, T) ==
    Cardinality({i \in DOMAIN T : \E j \in DOMAIN T[i] : T[i][j] = item})

\* C1: after train on a non-empty list the co-occurrence table is symmetric:
\* count(a,b) is present exactly when count(b,a) is, and the two are equal.
CoocSymmetric ==
    AfterBuild =>
        \A a, b \in Items :
            /\ Present(a, b) <=> Present(b, a)
            /\ Present(a, b) => Count(a, b) = Count(b, a)

CoocSymmetricWitness ==
    /\ AfterBuild
    /\ Present(1, 2) /\ Count(1, 2) = 2 /\ Count(2, 1) = 2
    /\ ~Present(1, 3)

\* C2: after train on a non-empty list, also one that repeats an item inside
\* a transaction, every popularity value lies in [0,1].
PopularityInUnitInterval ==
    AfterBuild =>
        \A i \in DOMAIN Pop : FracLeq(Zero, Pop[i][2]) /\ FracLeq(Pop[i][2], One)

\* C3: after train the popularity of every item is the number of
\* transactions that contain it over the number of transactions.
PopularityIsTransactionFraction ==
    AfterBuild =>
        \A item \in Keys(Pop) :
            Get(Pop, item) = Frac(Containing(item, LastBatch), Len(LastBatch))

\* C4: after train the popularity of every item is the number of positions
\* that hold it, over all transactions, divided by the number of transactions.
PopularityIsOccurrenceFraction ==
    AfterBuild =>
        \A item \in Items :
            /\ Has(Pop, item) <=> Occurrences(item, LastBatch) > 0
            /\ Has(Pop, item) =>
                  Get(Pop, item) = Frac(Occurrences(item, LastBatch), Len(LastBatch))

PopularityIsOccurrenceFractionWitness ==
    /\ AfterBuild
    /\ Len(LastBatch) = 2
    /\ Has(Pop, 1) /\ Get(Pop, 1) = Frac(3, 2)
    /\ Has(Pop, 2) /\ Get(Pop, 2) = Frac(1, 2)

\* C5: train on an empty list fails with InsufficientDataError, raised by a
\* precondition check before any division by the zero transaction count.
EmptyBuildRaisesInsufficientData ==
    (result.op = "train" /\ Len(LastBatch) = 0) =>
        result.status = "raise" /\ result.error = "InsufficientDataError"

\* C6: a train that fails leaves the co-occurrence table, the popularity
\* table and the fitted flag as they were before the call.
FailedBuildLeavesState ==
    [][(result'.op = "train" /\ result'.status = "raise") => engine' = engine]_vars

\* C7: a query interleaved with a train on an engine that an earlier,
\* successful train has fitted sees the complete previous tables or the
\* complete new tables, both from the same build.
QuerySeesWholeTables ==
    (/\ result.op = "related"
     /\ result.beside.pc # "idle"
     /\ result.beside.prev.is_fitted
     /\ built) =>
        LET a == result.args
            old == result.beside.prev
            new == Trained(result.beside.transactions)
            On(e) == recommend_related_items(e.item_cooccurrence, e.item_popularity,
                                             e.is_fitted, a.menu_item_id, a.top_k,
                                             a.min_support)
        IN  /\ result.status = "ok"
            /\ result.value = On(old).value \/ result.value = On(new).value

\* C8: every query on an engine on which no train has succeeded raises the
\* not-fitted error and returns no value.
QueryOps == {"related", "frequent_bundles", "cross_sell", "recommend_for_order",
             "insights"}

QueryBeforeBuildRaises ==
    (result.op \in QueryOps /\ ~built) =>
        result.status = "raise" /\ result.error = NotFitted.error

\* C9: once is_fitted is true it stays true through every train, query,
\* save and load of a saved blob.
FittedIsOneWay == [][is_fitted => is_fitted']_vars

FittedIsOneWayWitness ==
    /\ is_fitted
    /\ result.op = "load" /\ result.status = "ok"
    /\ blob # Unset /\ Val(blob).item_cooccurrence = item_cooccurrence
    /\ Len(Cooc) > 0

\* The composite score of a returned recommendation: count + popularity * 100.
Composite(rec) ==
    Frac(rec.cooccurrence_count * rec.popularity_score.den
            + 100 * rec.popularity_score.num,
         rec.popularity_score.den)

AfterRelated == result.op = "related" /\ result.status = "ok"

\* C10 as stated: the sequence returned by related(item, top_k, min_support)
\* is sorted by non-increasing composite score.
RelatedSortedByScore ==
    AfterRelated =>
        \A i, j \in DOMAIN result.value :
            i < j => FracLeq(Composite(result.value[j]), Composite(result.value[i]))

\* C10 as amended: the sequence is sorted by non-increasing co-occurrence
\* count, and each entry carries the composite score count + popularity * 100
\* of its partner, rounded to three places.
RelatedSortedByCount ==
    AfterRelated =>
        /\ \A i, j \in DOMAIN result.value :
              i < j => result.value[i].cooccurrence_count
                          >= result.value[j].cooccurrence_count
        /\ \A i \in DOMAIN result.value :
              LET rec == result.value[i]
              IN  /\ rec.popularity_score = Get(Pop, rec.menu_item_id)
                  /\ rec.cooccurrence_count = Count(result.args.menu_item_id, rec.menu_item_id)
                  /\ rec.recommendation_score = Round3(Composite(rec).num, Composite(rec).den)

RelatedSortedByCountWitness ==
    /\ AfterRelated
    /\ Len(result.value) = 2
    /\ result.value[1].cooccurrence_count >= result.value[2].cooccurrence_count
    /\ FracLess(Composite(result.value[1]), Composite(result.value[2]))
    /\ result.value[1].recommendation_score < result.value[2].recommendation_score

\* C11: related(item, top_k, min_support) returns at most top_k entries,
\* each a distinct partner whose count with item is >= min_support and is the
\* count stored in the table; it is empty when every partner's count is below
\* min_support.
RelatedWithinSupport ==
    AfterRelated =>
        LET v == result.value
            a == result.args
        IN  /\ Len(v) <= a.top_k
            /\ \A i, j \in DOMAIN v : i # j => v[i].menu_item_id # v[j].menu_item_id
            /\ \A i \in DOMAIN v :
                  /\ Present(a.menu_item_id, v[i].menu_item_id)
                  /\ v[i].cooccurrence_count = Count(a.menu_item_id, v[i].menu_item_id)
                  /\ v[i].cooccurrence_count >= a.min_support
            /\ (\A b \in Keys(GetOr(Cooc, a.menu_item_id, EmptyDict)) :
                   Count(a.menu_item_id, b) < a.min_support)
               => v = << >>

RelatedWithinSupportWitness ==
    /\ AfterRelated
    /\ result.args.top_k = 2 /\ result.args.min_support = 2
    /\ Len(result.value) = 1
    /\ result.value[1].cooccurrence_count = 2
    /\ \E b \in Items : /\ Present(result.args.menu_item_id, b)
                        /\ Count(result.args.menu_item_id, b) = 1

\* C12: on a fitted engine related(item, ...) for an item without an entry
\* in the co-occurrence table returns the empty sequence and raises nothing.
RelatedUnknownIsEmpty ==
    (result.op = "related" /\ is_fitted /\ ~Has(Cooc, result.args.menu_item_id)) =>
        result.status = "ok" /\ result.value = << >>

RelatedUnknownIsEmptyWitness ==
    /\ result.op = "related" /\ result.status = "ok" /\ is_fitted
    /\ ~Has(Cooc, result.args.menu_item_id)
    /\ Has(Pop, result.args.menu_item_id)
    /\ Len(Cooc) > 0
    /\ result.args.top_k > 0 /\ result.args.min_support = 0

\* ---- frequent bundles --------------------------------------------------------
AfterBundles == result.op = "frequent_bundles" /\ result.status = "ok"
\* The unordered pairs the table holds, each once, smaller item first.
TablePairs ==
    {ab \in Keys(Cooc) \X Keys(Cooc) : ab[1] < ab[2] /\ Present(ab[1], ab[2])}
\* The sum of their counts: one element per pair and unit of count.
TotalCooccurrences ==
    Cardinality(UNION {{<<ab, k>> : k \in 1..Count(ab[1], ab[2])} : ab \in TablePairs})
\* The pairs whose count reaches min_support * total_cooccurrences.
Retained(min_support) ==
    {ab \in TablePairs :
        Count(ab[1], ab[2]) * min_support.den >= min_support.num * TotalCooccurrences}

\* C13: frequent_bundles returns at most 20 entries, in non-increasing order
\* of count, and no retained pair that the cut left out has a count strictly
\* greater than a returned pair.
BundlesTopCut ==
    AfterBundles =>
        LET v == result.value
            returned == {v[i].items : i \in DOMAIN v}
        IN  /\ Len(v) <= MaxBundles
            /\ \A i, j \in DOMAIN v : i < j => v[i].count >= v[j].count
            /\ \A i \in DOMAIN v :
                  /\ <<v[i].items[1], v[i].items[2]>> \in Retained(result.args.min_support)
                  /\ v[i].count = Count(v[i].items[1], v[i].items[2])
            /\ \A ab \in Retained(result.args.min_support) :
                  ab \notin returned =>
                      \A i \in DOMAIN v : Count(ab[1], ab[2]) <= v[i].count

\* The cut happens: 20 entries of two different counts, and a retained pair
\* left out.
BundlesTopCutWitness ==
    /\ AfterBundles
    /\ Len(result.value) = MaxBundles
    /\ result.value[1].count > result.value[MaxBundles].count
    /\ \E ab \in Retained(result.args.min_support) :
           \A i \in DOMAIN result.value : result.value[i].items # ab

AfterCrossSell == result.op = "cross_sell" /\ result.status = "ok"

\* C15: in the sequence cross_sell returns, positions 1 and 2 are tagged
\* "upsell" and every later position "add-on", whatever the scores; the
\* sequence has at most top_k entries.
CrossSellTagsByRank ==
    AfterCrossSell =>
        LET v == result.value
        IN  /\ Len(v) <= result.args.top_k
            /\ \A i \in DOMAIN v :
                  v[i].recommendation_type = IF i <= 2 THEN "upsell" ELSE "add-on"

\* Three opportunities, the second and the third with the same potential and
\* different tags.
CrossSellTagsByRankWitness ==
    /\ AfterCrossSell
    /\ Len(result.value) = 3
    /\ result.value[2].cross_sell_potential = result.value[3].cross_sell_potential
    /\ result.value[2].recommendation_type = "upsell"
    /\ result.value[3].recommendation_type = "add-on"

\* ---- recommendations for an order ---------------------------------------------
AfterForOrder == result.op = "recommend_for_order" /\ result.status = "ok"
CurrentItems == {result.args.current_order[j] : j \in DOMAIN result.args.current_order}
ReturnedItems == {result.value[i].menu_item_id : i \in DOMAIN result.value}

\* C16: for an empty order, recommend_for_order returns min(top_k, number
\* of items) entries, all tagged "popular", in non-increasing order of
\* popularity, and no item left out is strictly more popular than a
\* returned one.
EmptyOrderGetsMostPopular ==
    (AfterForOrder /\ result.args.current_order = << >>) =>
        LET v == result.value
            k == result.args.top_k
        IN  /\ Len(v) = IF k <= Len(Pop) THEN k ELSE Len(Pop)
            /\ \A i \in DOMAIN v :
                  /\ v[i].reason = "popular"
                  /\ Has(Pop, v[i].menu_item_id)
                  /\ v[i].score = Get(Pop, v[i].menu_item_id)
            /\ \A i, j \in DOMAIN v :
                  i < j => /\ FracLeq(v[j].score, v[i].score)
                           /\ v[i].menu_item_id # v[j].menu_item_id
            /\ \A item \in Keys(Pop) \ ReturnedItems :
                  \A i \in DOMAIN v : FracLeq(Get(Pop, item), v[i].score)

\* Two of three items returned, of different popularity, the third left out.
EmptyOrderGetsMostPopularWitness ==
    /\ AfterForOrder /\ result.args.current_order = << >>
    /\ Len(result.value) = 2 /\ Len(Pop) = 3
    /\ FracLess(result.value[2].score, result.value[1].score)
    /\ \E item \in Keys(Pop) \ ReturnedItems : FracLess(Zero, Get(Pop, item))

\* C17: for a non-empty order, recommend_for_order never returns an item of
\* the order, and every entry is tagged "frequently_bought_together".
OrderItemsNotRecommended ==
    (AfterForOrder /\ result.args.current_order # << >>) =>
        /\ CurrentItems \cap ReturnedItems = {}
        /\ \A i \in DOMAIN result.value :
              result.value[i].reason = "frequently_bought_together"

\* An order of two items that are related to each other with count >= 2,
\* and a third item recommended.
OrderItemsNotRecommendedWitness ==
    /\ AfterForOrder
    /\ Len(result.args.current_order) = 2 /\ result.args.top_k > 0
    /\ \E a, b \in CurrentItems : a # b /\ Present(a, b) /\ Count(a, b) >= 2
    /\ Len(result.value) > 0

\* ---- build and persistence ------------------------------------------------------
\* C18: a train() that follows a train() on the same transaction list leaves
\* the co-occurrence and the popularity tables as the first one left them.
BuildIdempotent ==
    [][(/\ result.op = "train"
        /\ result'.op = "train"
        /\ result'.args.transactions = result.args.transactions)
       => (item_cooccurrence' = item_cooccurrence /\ item_popularity' = item_popularity)]_vars

\* A build of two transactions that left a pair counted twice: the state a
\* second build of the same list starts from and returns to.
BuildIdempotentWitness ==
    /\ AfterBuild
    /\ Len(LastBatch) = MaxTx
    /\ LastBatch \in Batches
    /\ \E a, b \in Items : a # b /\ Present(a, b) /\ Count(a, b) = 2

TableKeysFromTransactions ==
    AfterBuild =>
        /\ Keys(Pop) = {item \in Items : Occurrences(item, LastBatch) > 0}
        /\ Keys(Cooc) \subseteq Keys(Pop)
        /\ \A a \in Keys(Cooc) :
              /\ Keys(Get(Cooc, a)) \subseteq Keys(Pop)
              /\ \A b \in Keys(Get(Cooc, a)) : Count(a, b) \in Nat \ {0}

\* An item that was only ever bought alone, beside a pair, and an item of
\* the menu that no transaction holds.
TableKeysFromTransactionsWitness ==
    /\ AfterBuild
    /\ Len(Cooc) > 0
    /\ Keys(Pop) \ Keys(Cooc) # {}
    /\ Items \ Keys(Pop) # {}

\* ---- reads ------------------------------------------------------------------
ReadOps == {"related", "frequent_bundles", "cross_sell", "item_statistics",
            "recommend_for_order", "insights"}

\* C21: no query changes the co-occurrence table, the popularity table or
\* the fitted flag, also when the item it asks for is in neither table
\* (every step of the specification is one call, named by result'.op).
QueriesLeaveTables ==
    [][result'.op \in ReadOps => engine' = engine]_vars

\* A query on a fitted engine, answered, for an item that neither table
\* holds.
QueriesLeaveTablesWitness ==
    /\ result.op \in {"related", "cross_sell", "item_statistics"}
    /\ result.status = "ok" /\ is_fitted
    /\ Len(Cooc) > 0
    /\ ~Has(Cooc, result.args.menu_item_id)
    /\ ~Has(Pop, result.args.menu_item_id)

\* ---- what a count counts ---------------------------------------------------------
\* count(a, b), 0 when the table has no such entry.
CountOrZero(a, b) == IF Present(a, b) THEN Count(a, b) ELSE 0
\* Number of transactions of T that hold both a and b.
ContainingBoth(a, b, T) ==
    Cardinality({k \in DOMAIN T : /\ \E i \in DOMAIN T[k] : T[k][i] = a
                                  /\ \E j \in DOMAIN T[k] : T[k][j] = b})
\* Number of position pairs i < j of the transactions of T that hold a and
\* b, in either order.
PositionPairs(a, b, T) ==
    Cardinality({kij \in (DOMAIN T) \X (1..MaxPositions) \X (1..MaxPositions) :
                    /\ kij[2] < kij[3]
                    /\ kij[3] \in DOMAIN T[kij[1]]
                    /\ {T[kij[1]][kij[2]], T[kij[1]][kij[3]]} = {a, b}})

\* C22: after build, for distinct items a and b, count(a, b) is the number
\* of transactions that hold both.
CountIsTransactionsWithBoth ==
    AfterBuild =>
        \A a, b \in Items :
            a # b => CountOrZero(a, b) = ContainingBoth(a, b, LastBatch)

\* C23: after build, for distinct items a and b, count(a, b) is the number
\* of position pairs i < j, over all transactions, that hold a and b; the
\* scenario feed gives count 2 to each pair and popularity 3/4 to each item.
CountIsPositionPairs ==
    AfterBuild =>
        /\ \A a, b \in Items :
              a # b => CountOrZero(a, b) = PositionPairs(a, b, LastBatch)
        /\ LastBatch = ScenarioFeed =>
              /\ Keys(Pop) = {1, 2, 3}
              /\ \A a, b \in Keys(Pop) : a # b => Present(a, b) /\ Count(a, b) = 2
              /\ \A a \in Keys(Pop) : Get(Pop, a) = Frac(3, 4)

\* The build of the scenario feed.
CountIsPositionPairsWitness ==
    /\ AfterBuild
    /\ LastBatch = ScenarioFeed
    /\ Present(1, 2) /\ Count(1, 2) = 2
    /\ Get(Pop, 3) = Frac(3, 4)

\* ---- the cut of related() -------------------------------------------------------
\* The partners of the queried item that reach min_support and are not in
\* the result.
LeftOutPartners ==
    LET a == result.args
        row == GetOr(Cooc, a.menu_item_id, EmptyDict)
    IN  {b \in Keys(row) :
            /\ Get(row, b) >= a.min_support
            /\ \A i \in DOMAIN result.value : result.value[i].menu_item_id # b}
\* The composite score of a partner of the queried item.
PartnerComposite(b) ==
    Composite([cooccurrence_count |-> Count(result.args.menu_item_id, b),
               popularity_score |-> GetOr(Pop, b, Zero)])

\* C24 as stated: no partner with count >= min_support that related() leaves
\* out has a composite score strictly greater than a returned partner's.
RelatedTopByScore ==
    AfterRelated =>
        \A b \in LeftOutPartners : \A i \in DOMAIN result.value :
            ~FracLess(Composite(result.value[i]), PartnerComposite(b))

\* C24: related() returns the top_k partners by co-occurrence count: it
\* returns min(top_k, number of partners with count >= min_support) entries
\* and no such partner that is left out has a count strictly greater than a
\* returned partner's.
RelatedTopByCount ==
    AfterRelated =>
        LET a == result.args
            v == result.value
            row == GetOr(Cooc, a.menu_item_id, EmptyDict)
            reaching == {b \in Keys(row) : Get(row, b) >= a.min_support}
        IN  /\ Len(v) = IF a.top_k < Cardinality(reaching) THEN a.top_k
                        ELSE Cardinality(reaching)
            /\ \A b \in LeftOutPartners : \A i \in DOMAIN v :
                  Count(a.menu_item_id, b) <= v[i].cooccurrence_count

\* A partner left out by the cut whose composite score is above that of a
\* returned partner of the same count.
RelatedTopByCountWitness ==
    /\ AfterRelated
    /\ Len(result.value) = result.args.top_k
    /\ \E b \in LeftOutPartners : \E i \in DOMAIN result.value :
           /\ FracLess(Composite(result.value[i]), PartnerComposite(b))
           /\ Count(result.args.menu_item_id, b) = result.value[i].cooccurrence_count

Contribution(j, c) ==
    LET a == result.args
        rel == recommend_related_items(item_cooccurrence, item_popularity, TRUE,
                                       a.current_order[j], 2 * a.top_k, 2).value
        hits == {i \in DOMAIN rel : rel[i].menu_item_id = c}
    IN  IF hits = {} THEN 0 ELSE rel[CHOOSE i \in hits : TRUE].recommendation_score
\* The sum of the contributions of the positions j.. of the order.
RECURSIVE Accumulated(_, _)
Accumulated(c, j) ==
    IF j > Len(result.args.current_order) THEN 0
    ELSE Contribution(j, c) + Accumulated(c, j + 1)

\* C26: for a non-empty order, recommend_for_order returns at most top_k
\* candidates in non-increasing order of accumulated score, the accumulated
\* score of a candidate being the sum over the positions of the order of its
\* composite score in related(that item, 2 * top_k, 2).
OrderScoresAccumulate ==
    (AfterForOrder /\ result.args.current_order # << >>) =>
        LET v == result.value
        IN  /\ Len(v) <= result.args.top_k
            /\ \A i \in DOMAIN v : v[i].score = Accumulated(v[i].menu_item_id, 1)
            /\ \A i, j \in DOMAIN v : i < j => v[i].score >= v[j].score

\* A candidate that two different items of the order both contribute to.
OrderScoresAccumulateWitness ==
    /\ AfterForOrder
    /\ Len(result.args.current_order) = 2
    /\ result.args.current_order[1] # result.args.current_order[2]
    /\ \E i \in DOMAIN result.value :
           /\ Contribution(1, result.value[i].menu_item_id) > 0
           /\ Contribution(2, result.value[i].menu_item_id) > 0
           /\ result.value[i].score = Contribution(1, result.value[i].menu_item_id)
                                      + Contribution(2, result.value[i].menu_item_id)

\* ---- cross-sell over related() -----------------------------------------------------
\* C27: cross_sell(item, top_k) is the first top_k entries of
\* related(item, 2 * top_k, min_support = 3), in that order; each entry has
\* count >= 3 and potential = count * 0.6 + popularity * 1000 * 0.4 (in
\* thousandths), and the result is empty for an item without a row.
CrossSellIsRelatedPrefix ==
    AfterCrossSell =>
        LET a == result.args
            v == result.value
            rel == recommend_related_items(item_cooccurrence, item_popularity, TRUE,
                                           a.menu_item_id, 2 * a.top_k, 3).value
        IN  /\ Len(v) = IF a.top_k < Len(rel) THEN a.top_k ELSE Len(rel)
            /\ \A i \in DOMAIN v :
                  /\ v[i].menu_item_id = rel[i].menu_item_id
                  /\ v[i].cooccurrence_count = rel[i].cooccurrence_count
                  /\ v[i].popularity_score = rel[i].popularity_score
                  /\ v[i].recommendation_score = rel[i].recommendation_score
                  /\ v[i].cooccurrence_count >= 3
                  /\ v[i].cross_sell_potential =
                        Round3(6 * v[i].cooccurrence_count * v[i].popularity_score.den
                                  + 4000 * v[i].popularity_score.num,
                               10 * v[i].popularity_score.den)
            /\ ~Has(Cooc, a.menu_item_id) => v = << >>

\* Two opportunities in the order of related(), the second with the greater
\* potential.
CrossSellIsRelatedPrefixWitness ==
    /\ AfterCrossSell
    /\ Len(result.value) >= 2
    /\ result.value[1].cross_sell_potential < result.value[2].cross_sell_potential

\* ---- rebuilding --------------------------------------------------------------------
\* C28: a successful build on a fitted engine leaves the tables of a new
\* engine after the same build: nothing of the build before is carried over.
RebuildReplacesTables ==
    (AfterBuild /\ train_pc = "idle") =>
        /\ item_cooccurrence = Trained(LastBatch).item_cooccurrence
        /\ item_popularity = Trained(LastBatch).item_popularity

\* A build that began on the tables of another build, which held an item
\* and a pair that the new tables do not hold.
RebuildReplacesTablesWitness ==
    /\ AfterBuild /\ train_pc = "idle"
    /\ prev.is_fitted
    /\ Len(Cooc) > 0
    /\ Keys(Val(prev.item_popularity)) \ Keys(Pop) # {}
    /\ Keys(Val(prev.item_cooccurrence)) \ Keys(Cooc) # {}

\* C29: while the first build of an unfitted engine runs, the fitted flag
\* is true only when both tables are complete, and a query that runs beside
\* it raises the not-fitted error or answers from the complete tables.
FirstBuildFlagAfterTables ==
    /\ (train_pc # "idle" /\ ~prev.is_fitted /\ is_fitted) =>
           /\ item_cooccurrence = Trained(train_T).item_cooccurrence
           /\ item_popularity = Trained(train_T).item_popularity
    /\ (result.op = "related" /\ result.beside.pc # "idle"
           /\ ~result.beside.prev.is_fitted) =>
           \/ result.status = "raise" /\ result.error = "ValueError"
           \/ LET new == Trained(result.beside.transactions)
                  a == result.args
              IN  /\ result.status = "ok"
                  /\ result.value =
                        recommend_related_items(new.item_cooccurrence, new.item_popularity,
                                                TRUE, a.menu_item_id, a.top_k,
                                                a.min_support).value

\* A query answered beside the first build, after line 57, with a partner.
FirstBuildFlagAfterTablesWitness ==
    /\ result.op = "related" /\ result.status = "ok"
    /\ result.beside.pc = "return"
    /\ ~result.beside.prev.is_fitted
    /\ Len(result.value) > 0

\* ---- self-pairs --------------------------------------------------------------------
\* C30: the table of a build of the feed holds count(x, x) exactly when a
\* transaction holds x at two positions or more, and count(x, x) is twice
\* the number of such position pairs; related(x) returns x only then, and
\* frequent_bundles has no self-pair in its result nor in its total.
SelfPairsCountTwice ==
    /\ is_fitted =>
           \A x \in Items :
               /\ Present(x, x) <=> PositionPairs(x, x, feed) > 0
               /\ Present(x, x) => Count(x, x) = 2 * PositionPairs(x, x, feed)
    /\ AfterRelated =>
           \A i \in DOMAIN result.value :
               result.value[i].menu_item_id = result.args.menu_item_id
                   => PositionPairs(result.args.menu_item_id, result.args.menu_item_id, feed) > 0
    /\ AfterBundles =>
           \A i \in DOMAIN result.value :
               /\ result.value[i].items[1] # result.value[i].items[2]
               /\ result.value[i].support =
                     Round4(result.value[i].count, TotalCooccurrences)

\* Bundles of a table that holds a self-pair of count 2: the one pair of
\* distinct items is the whole total.
SelfPairsCountTwiceWitness ==
    /\ AfterBundles
    /\ \E x \in Items : Present(x, x) /\ Count(x, x) = 2
    /\ Len(result.value) = 1
    /\ result.value[1].support = 10000

====
